---- MODULE Spec2Model ----
(***************************************************************************)
(* The rule engine of the pricing/tax modules: operatorsPredicate,         *)
(* isContextValid, validateRule and validateRules, together with the       *)
(* JavaScript value semantics they rely on (truthiness, strict equality,   *)
(* Array.prototype.includes, Number(), Date.parse()).                      *)
(*                                                                         *)
(* JavaScript values are records [t, s, n, a]:                             *)
(*   t  the type tag, s the characters of a string, n the value of a       *)
(*   number or boolean (0/1), a the elements of an array or the            *)
(*   <<key, value>> entries of an object.                                  *)
(* Strings are sequences of one-character strings so that splitting a      *)
(* path, parsing a number or a date and changing case are computed.        *)
(***************************************************************************)
EXTENDS Integers, Sequences, FiniteSets

VARIABLES context, rules, legacyDates, ret, moduleOptions, step, inflight

vars == <<context, rules, legacyDates, ret, moduleOptions, step, inflight>>

\* Longest rule set drawn for a call.
MaxRules == 2

----------------------------------------------------------------------------
\* JavaScript values

Undefined == [t |-> "undefined", s |-> <<>>, n |-> 0, a |-> <<>>]

Null == [t |-> "null", s |-> <<>>, n |-> 0, a |-> <<>>]

NaN == [t |-> "nan", s |-> <<>>, n |-> 0, a |-> <<>>]

Bool(b) == [t |-> "boolean", s |-> <<>>, n |-> IF b THEN 1 ELSE 0, a |-> <<>>]

Num(k) == [t |-> "number", s |-> <<>>, n |-> k, a |-> <<>>]

Str(cs) == [t |-> "string", s |-> cs, n |-> 0, a |-> <<>>]

Arr(xs) == [t |-> "array", s |-> <<>>, n |-> 0, a |-> xs]

\* entries is a sequence of <<key, value>> pairs, key a character sequence
Obj(entries) == [t |-> "object", s |-> <<>>, n |-> 0, a |-> entries]

\* ToBoolean: what `!x` tests
Truthy(v) ==
  CASE v.t \in {"undefined", "null", "nan"} -> FALSE
    [] v.t \in {"boolean", "number"} -> v.n # 0
    [] v.t = "string" -> v.s # <<>>
    [] OTHER -> TRUE

\* x === y; two arrays or objects reached through the context and through a
\* rule are never the same reference
StrictEquals(x, y) ==
  CASE x.t # y.t -> FALSE
    [] x.t \in {"undefined", "null"} -> TRUE
    [] x.t = "nan" -> FALSE
    [] x.t \in {"boolean", "number"} -> x.n = y.n
    [] x.t = "string" -> x.s = y.s
    [] OTHER -> FALSE

\* SameValueZero, the comparison of Array.prototype.includes
SameValueZero(x, y) == (x.t = "nan" /\ y.t = "nan") \/ StrictEquals(x, y)

Digits == <<"0", "1", "2", "3", "4", "5", "6", "7", "8", "9">>

IsDigit(c) == \E i \in 1..10 : Digits[i] = c

DigitValue(c) == (CHOOSE i \in 1..10 : Digits[i] = c) - 1

AllDigits(cs) == \A i \in 1..Len(cs) : IsDigit(cs[i])

RECURSIVE DecimalValue(_)
DecimalValue(cs) ==
  IF cs = <<>> THEN 0
  ELSE 10 * DecimalValue(SubSeq(cs, 1, Len(cs) - 1)) + DigitValue(cs[Len(cs)])

\* Number.prototype.toString for the integers of the model
RECURSIVE NatToChars(_)
NatToChars(k) ==
  IF k < 10 THEN <<Digits[k + 1]>>
  ELSE NatToChars(k \div 10) \o <<Digits[(k % 10) + 1]>>

IntToChars(k) == IF k < 0 THEN <<"-">> \o NatToChars(0 - k) ELSE NatToChars(k)

Chars_undefined == <<"u", "n", "d", "e", "f", "i", "n", "e", "d">>

Chars_null == <<"n", "u", "l", "l">>

Chars_NaN == <<"N", "a", "N">>

Chars_true == <<"t", "r", "u", "e">>

Chars_false == <<"f", "a", "l", "s", "e">>

Chars_object == <<"[", "o", "b", "j", "e", "c", "t", " ", "O", "b", "j", "e", "c", "t", "]">>

\* ToString(x): the string a value is coerced to by Date.parse and by
\* String.prototype.includes; an array joins its elements with ","
RECURSIVE JSToString(_)
RECURSIVE JoinValues(_)
JoinValues(xs) ==
  IF xs = <<>> THEN <<>>
  ELSE LET h == IF Head(xs).t \in {"undefined", "null"} THEN <<>> ELSE JSToString(Head(xs))
       IN IF Len(xs) = 1 THEN h ELSE h \o <<",">> \o JoinValues(Tail(xs))

JSToString(v) ==
  CASE v.t = "undefined" -> Chars_undefined
    [] v.t = "null" -> Chars_null
    [] v.t = "nan" -> Chars_NaN
    [] v.t = "boolean" -> IF v.n = 1 THEN Chars_true ELSE Chars_false
    [] v.t = "number" -> IntToChars(v.n)
    [] v.t = "string" -> v.s
    [] v.t = "array" -> JoinValues(v.a)
    [] OTHER -> Chars_object

\* StringToNumber on the strings of the model: empty is 0, an optionally
\* signed run of decimal digits is its value, anything else is NaN
StringToNumber(cs) ==
  CASE cs = <<>> -> Num(0)
    [] AllDigits(cs) -> Num(DecimalValue(cs))
    [] Len(cs) > 1 /\ cs[1] = "-" /\ AllDigits(Tail(cs)) -> Num(0 - DecimalValue(Tail(cs)))
    [] OTHER -> NaN

\* A coercion that reads undefined as 0, as it reads null
ToNumber_UndefinedIsZero(v) ==
  CASE v.t \in {"nan", "object"} -> NaN
    [] v.t \in {"undefined", "null"} -> Num(0)
    [] v.t \in {"boolean", "number"} -> Num(v.n)
    [] v.t = "string" -> StringToNumber(v.s)
    [] OTHER -> StringToNumber(JoinValues(v.a))

\* Number(x)
ToNumber(v) ==
  CASE v.t \in {"undefined", "nan", "object"} -> NaN
    [] v.t = "null" -> Num(0)
    [] v.t \in {"boolean", "number"} -> Num(v.n)
    [] v.t = "string" -> StringToNumber(v.s)
    [] OTHER -> StringToNumber(JoinValues(v.a))

\* The comparison with lte and gte written as the complements of gt and lt
NumberCompare_Complements(cmp, x, y) ==
  LET gt == x.t # "nan" /\ y.t # "nan" /\ x.n > y.n
      lt == x.t # "nan" /\ y.t # "nan" /\ x.n < y.n
  IN CASE cmp = "gt" -> gt
       [] cmp = "gte" -> ~lt
       [] cmp = "lt" -> lt
       [] OTHER -> ~gt

\* a > b, a >= b, a < b, a <= b on two Number() results
NumberCompare(cmp, x, y) ==
  IF x.t = "nan" \/ y.t = "nan" THEN FALSE
  ELSE CASE cmp = "gt" -> x.n > y.n
         [] cmp = "gte" -> x.n >= y.n
         [] cmp = "lt" -> x.n < y.n
         [] OTHER -> x.n <= y.n

----------------------------------------------------------------------------
\* Date.parse and new Date

\* A time value is <<days since 1970-01-01, milliseconds within the day>>
MsPerDay == 24 * 60 * 60 * 1000

IsLeapYear(y) == (y % 4 = 0 /\ y % 100 # 0) \/ y % 400 = 0

DaysInMonth(y, m) ==
  CASE m \in {4, 6, 9, 11} -> 30
    [] m = 2 -> IF IsLeapYear(y) THEN 29 ELSE 28
    [] OTHER -> 31

\* Day number of the civil date y-m-d (MakeDay)
DaysFromCivil(y, m, d) ==
  LET yy == IF m <= 2 THEN y - 1 ELSE y
      era == yy \div 400
      yoe == yy - era * 400
      mp == IF m > 2 THEN m - 3 ELSE m + 9
      doy == (153 * mp + 2) \div 5 + d - 1
      doe == yoe * 365 + yoe \div 4 - yoe \div 100 + doy
  IN era * 146097 + doe - 719468

InvalidDate == [valid |-> FALSE, day |-> 0, ms |-> 0]

TimeValue(day, ms) == [valid |-> TRUE, day |-> day, ms |-> ms]

\* The date-only forms YYYY, YYYY-MM and YYYY-MM-DD of the date-time string
\* format, read as UTC
IsoDateParse(cs) ==
  LET y == DecimalValue(SubSeq(cs, 1, 4))
      m == IF Len(cs) >= 7 THEN DecimalValue(SubSeq(cs, 6, 7)) ELSE 1
      d == IF Len(cs) = 10 THEN DecimalValue(SubSeq(cs, 9, 10)) ELSE 1
      shaped ==
        /\ Len(cs) \in {4, 7, 10}
        /\ AllDigits(SubSeq(cs, 1, 4))
        /\ Len(cs) >= 7 => (cs[5] = "-" /\ AllDigits(SubSeq(cs, 6, 7)))
        /\ Len(cs) = 10 => (cs[8] = "-" /\ AllDigits(SubSeq(cs, 9, 10)))
  IN IF shaped /\ m \in 1..12 /\ d \in 1..DaysInMonth(y, m)
     THEN TimeValue(DaysFromCivil(y, m, d), 0)
     ELSE InvalidDate

\* The implementation-defined fallback of Date.parse for a string that is not
\* in the date-time string format. A host with the legacy heuristics reads a
\* lone number 1..12 as the first day of that month of 2001; a host without
\* them rejects it. Every other string of the model is rejected by both.
LegacyDateParse(cs, legacy) ==
  IF legacy /\ cs # <<>> /\ Len(cs) <= 2 /\ AllDigits(cs) /\ DecimalValue(cs) \in 1..12
  THEN TimeValue(DaysFromCivil(2001, DecimalValue(cs), 1), 0)
  ELSE InvalidDate

\* Date.parse(x): x is coerced to a string first
DateParse(v, legacy) ==
  LET cs == JSToString(v)
      iso == IsoDateParse(cs)
  IN IF iso.valid THEN iso ELSE LegacyDateParse(cs, legacy)

\* isDate = (str) => !isNaN(Date.parse(str))
isDate(v, legacy) == DateParse(v, legacy).valid

\* new Date(x): a number is a time value in milliseconds, anything else is
\* parsed from its primitive (string) form
NewDate(v, legacy) ==
  CASE v.t = "number" -> TimeValue(v.n \div MsPerDay, v.n % MsPerDay)
    [] v.t \in {"undefined", "nan"} -> InvalidDate
    [] v.t \in {"null", "boolean"} -> TimeValue(0, v.n)
    [] OTHER -> DateParse(v, legacy)

\* Relational comparison of two Date objects (by time value; NaN compares false)
DateCompare(cmp, x, y) ==
  IF ~x.valid \/ ~y.valid THEN FALSE
  ELSE LET lt == x.day < y.day \/ (x.day = y.day /\ x.ms < y.ms)
           eq == x.day = y.day /\ x.ms = y.ms
       IN CASE cmp = "gt" -> ~lt /\ ~eq
            [] cmp = "gte" -> ~lt
            [] cmp = "lt" -> lt
            [] OTHER -> lt \/ eq

----------------------------------------------------------------------------
\* Strings of the engine

S_in == <<"i", "n">>

S_nin == <<"n", "i", "n">>

S_eq == <<"e", "q">>

S_ne == <<"n", "e">>

S_gt == <<"g", "t">>

S_gte == <<"g", "t", "e">>

S_lt == <<"l", "t">>

S_lte == <<"l", "t", "e">>

\* String.prototype.toLowerCase on the letters of the model
UpperLetters == <<"A", "B", "C", "D", "E", "F", "G", "H", "I", "J", "K", "L", "M",
                  "N", "O", "P", "Q", "R", "S", "T", "U", "V", "W", "X", "Y", "Z">>

LowerLetters == <<"a", "b", "c", "d", "e", "f", "g", "h", "i", "j", "k", "l", "m",
                  "n", "o", "p", "q", "r", "s", "t", "u", "v", "w", "x", "y", "z">>

ToLowerCase(cs) ==
  [i \in 1..Len(cs) |->
     IF \E k \in 1..26 : UpperLetters[k] = cs[i]
     THEN LowerLetters[CHOOSE k \in 1..26 : UpperLetters[k] = cs[i]]
     ELSE cs[i]]

\* String.prototype.split on a one-character separator
RECURSIVE Split(_, _)
Split(cs, sep) ==
  IF \E i \in 1..Len(cs) : cs[i] = sep
  THEN LET k == CHOOSE i \in 1..Len(cs) : cs[i] = sep /\ \A j \in 1..(i - 1) : cs[j] # sep
       IN <<SubSeq(cs, 1, k - 1)>> \o Split(SubSeq(cs, k + 1, Len(cs)), sep)
  ELSE <<cs>>

\* Array.prototype.join of strings
RECURSIVE Join(_, _)
Join(parts, sep) ==
  IF parts = <<>> THEN <<>>
  ELSE IF Len(parts) = 1 THEN parts[1]
  ELSE parts[1] \o sep \o Join(Tail(parts), sep)

\* String.prototype.includes
IsSubstring(needle, hay) ==
  \E i \in 0..(Len(hay) - Len(needle)) : SubSeq(hay, i + 1, i + Len(needle)) = needle

\* object[key]
GetProperty(object, key) ==
  IF object.t = "object" /\ \E i \in 1..Len(object.a) : object.a[i][1] = key
  THEN object.a[CHOOSE i \in 1..Len(object.a) : object.a[i][1] = key][2]
  ELSE Undefined

\* Path lookup: the value at the dotted path, undefined when the path does
\* not exist
RECURSIVE WalkPath(_, _)
WalkPath(segments, object) ==
  IF segments = <<>> THEN object
  ELSE WalkPath(Tail(segments), GetProperty(object, Head(segments)))

pickValueFromObject(path, object) == WalkPath(Split(path, "."), object)

\* typeof x === "string"
isString(v) == v.t = "string"

\* Object.values(RuleOperator)
availableOperators == <<S_in, S_nin, S_eq, S_ne, S_gt, S_gte, S_lt, S_lte>>

RuleOperator_IN == S_in

RuleOperator_NIN == S_nin

----------------------------------------------------------------------------
\* Outcomes of a call: a returned boolean or a thrown error

NoError == [type |-> "none", text |-> "", args |-> <<>>]

\* new MedusaError(MedusaError.Types.INVALID_DATA, message); the message is
\* its fixed wording and the strings interpolated into it
InvalidData(text, args) == [type |-> "INVALID_DATA", text |-> text, args |-> args]

\* The TypeError the runtime raises for calling undefined or reading a
\* property of undefined/null
TypeError(text) == [type |-> "TypeError", text |-> text, args |-> <<>>]

Return(b) == [kind |-> "return", val |-> b, err |-> NoError, visited |-> 0]

Throw(e) == [kind |-> "throw", val |-> FALSE, err |-> e, visited |-> 0]

----------------------------------------------------------------------------
\* operatorsPredicate

\* A table without the lte entry
PredicateKeys_WithoutLte == {S_in, S_nin, S_eq, S_ne, S_gt, S_gte, S_lt}

\* The keys of the operatorsPredicate table
PredicateKeys == {S_in, S_nin, S_eq, S_ne, S_gt, S_gte, S_lt, S_lte}

\* Membership tested with ruleValue.indexOf(contextValue) > 0
Includes_IndexOfPositive(ruleValue, contextValue) ==
  CASE ruleValue.t = "array" ->
         Return(\E i \in 2..Len(ruleValue.a) : StrictEquals(ruleValue.a[i], contextValue))
    [] ruleValue.t = "string" ->
         Return(IsSubstring(JSToString(contextValue), ruleValue.s))
    [] ruleValue.t \in {"undefined", "null"} ->
         Throw(TypeError("Cannot read properties of undefined"))
    [] OTHER -> Throw(TypeError("ruleValue.indexOf is not a function"))

\* ruleValue.includes(contextValue)
Includes(ruleValue, contextValue) ==
  CASE ruleValue.t = "array" ->
         Return(\E i \in 1..Len(ruleValue.a) : SameValueZero(ruleValue.a[i], contextValue))
    [] ruleValue.t = "string" ->
         Return(IsSubstring(JSToString(contextValue), ruleValue.s))
    [] ruleValue.t \in {"undefined", "null"} ->
         Throw(TypeError("Cannot read properties of undefined"))
    [] OTHER -> Throw(TypeError("ruleValue.includes is not a function"))

\* The body shared by gt, gte, lt and lte
Ordering(cmp, contextValue, ruleValue, legacy) ==
  IF isDate(contextValue, legacy) /\ isDate(ruleValue, legacy)
  THEN Return(DateCompare(cmp, NewDate(contextValue, legacy), NewDate(ruleValue, legacy)))
  ELSE Return(NumberCompare(cmp, ToNumber(contextValue), ToNumber(ruleValue)))

\* nin without its negation
Negate_Missing(r) == r

Negate(r) == IF r.kind = "return" THEN Return(~r.val) ELSE r

\* x == y on primitives: equal types compare strictly, null equals undefined,
\* and otherwise both sides are compared as numbers
LooseEquals(x, y) ==
  CASE x.t = y.t -> StrictEquals(x, y)
    [] x.t \in {"undefined", "null"} /\ y.t \in {"undefined", "null"} -> TRUE
    [] x.t \in {"undefined", "null"} \/ y.t \in {"undefined", "null"} -> FALSE
    [] OTHER -> /\ ToNumber(x).t = "number"
                /\ ToNumber(y).t = "number"
                /\ ToNumber(x).n = ToNumber(y).n

\* The table with eq written with ==
operatorsPredicate_LooseEq(operator, contextValue, ruleValue, legacy) ==
  LET key == JSToString(operator)
  IN CASE key \notin PredicateKeys ->
            Throw(TypeError("operatorsPredicate[operator] is not a function"))
       [] key = S_in -> Includes(ruleValue, contextValue)
       [] key = S_nin -> Negate(Includes(ruleValue, contextValue))
       [] key = S_eq -> Return(LooseEquals(contextValue, ruleValue))
       [] key = S_ne -> Return(~StrictEquals(contextValue, ruleValue))
       [] key = S_gt -> Ordering("gt", contextValue, ruleValue, legacy)
       [] key = S_gte -> Ordering("gte", contextValue, ruleValue, legacy)
       [] key = S_lt -> Ordering("lt", contextValue, ruleValue, legacy)
       [] OTHER -> Ordering("lte", contextValue, ruleValue, legacy)

\* The table with ne written with !=
operatorsPredicate_LooseNe(operator, contextValue, ruleValue, legacy) ==
  LET key == JSToString(operator)
  IN CASE key \notin PredicateKeys ->
            Throw(TypeError("operatorsPredicate[operator] is not a function"))
       [] key = S_in -> Includes(ruleValue, contextValue)
       [] key = S_nin -> Negate(Includes(ruleValue, contextValue))
       [] key = S_eq -> Return(StrictEquals(contextValue, ruleValue))
       [] key = S_ne -> Return(~LooseEquals(contextValue, ruleValue))
       [] key = S_gt -> Ordering("gt", contextValue, ruleValue, legacy)
       [] key = S_gte -> Ordering("gte", contextValue, ruleValue, legacy)
       [] key = S_lt -> Ordering("lt", contextValue, ruleValue, legacy)
       [] OTHER -> Ordering("lte", contextValue, ruleValue, legacy)

\* The table looked up with operatorsPredicate[operator]?.(...) ?? false
operatorsPredicate_UnknownIsFalse(operator, contextValue, ruleValue, legacy) ==
  LET key == JSToString(operator)
  IN CASE key \notin PredicateKeys ->
            Return(FALSE)
       [] key = S_in -> Includes(ruleValue, contextValue)
       [] key = S_nin -> Negate(Includes(ruleValue, contextValue))
       [] key = S_eq -> Return(StrictEquals(contextValue, ruleValue))
       [] key = S_ne -> Return(~StrictEquals(contextValue, ruleValue))
       [] key = S_gt -> Ordering("gt", contextValue, ruleValue, legacy)
       [] key = S_gte -> Ordering("gte", contextValue, ruleValue, legacy)
       [] key = S_lt -> Ordering("lt", contextValue, ruleValue, legacy)
       [] OTHER -> Ordering("lte", contextValue, ruleValue, legacy)

\* operatorsPredicate[operator](contextValue, ruleValue); an operator that is
\* not a key of the table yields undefined, and calling it raises
operatorsPredicate(operator, contextValue, ruleValue, legacy) ==
  LET key == JSToString(operator)
  IN CASE key \notin PredicateKeys ->
            Throw(TypeError("operatorsPredicate[operator] is not a function"))
       [] key = S_in -> Includes(ruleValue, contextValue)
       [] key = S_nin -> Negate(Includes(ruleValue, contextValue))
       [] key = S_eq -> Return(StrictEquals(contextValue, ruleValue))
       [] key = S_ne -> Return(~StrictEquals(contextValue, ruleValue))
       [] key = S_gt -> Ordering("gt", contextValue, ruleValue, legacy)
       [] key = S_gte -> Ordering("gte", contextValue, ruleValue, legacy)
       [] key = S_lt -> Ordering("lt", contextValue, ruleValue, legacy)
       [] OTHER -> Ordering("lte", contextValue, ruleValue, legacy)

----------------------------------------------------------------------------
\* isContextValid

\* A default of { someAreValid: true }
DefaultOptions_SomeAreValid == [given |-> FALSE, someAreValid |-> TRUE]

\* options = { someAreValid: false } when the argument is omitted
DefaultOptions == [given |-> FALSE, someAreValid |-> FALSE]

Options(b) == [given |-> TRUE, someAreValid |-> b]

\* A predicate that lets no rule match a context without the attribute
predicate_AbsentIsFalse(rule, ctx, legacy) ==
  IF ~isString(rule.attribute)
  THEN Throw(TypeError("path.split is not a function"))
  ELSE IF pickValueFromObject(rule.attribute.s, ctx) = Undefined
  THEN Return(FALSE)
  ELSE operatorsPredicate(rule.operator,
                          pickValueFromObject(rule.attribute.s, ctx),
                          rule.value, legacy)

\* const predicate = (rule) => ...
predicate(rule, ctx, legacy) ==
  IF ~isString(rule.attribute)
  THEN Throw(TypeError("path.split is not a function"))
  ELSE operatorsPredicate(rule.operator,
                          pickValueFromObject(rule.attribute.s, ctx),
                          rule.value, legacy)

\* A loop whose result on running out of rules is true in both modes
RECURSIVE loopComparator_VacuousTrue(_, _, _, _, _)
loopComparator_VacuousTrue(some, rs, i, ctx, legacy) ==
  IF i > Len(rs) THEN [Return(TRUE) EXCEPT !.visited = Len(rs)]
  ELSE LET r == predicate(rs[i], ctx, legacy)
       IN IF r.kind = "throw" THEN [r EXCEPT !.visited = i]
          ELSE IF r.val = some THEN [Return(some) EXCEPT !.visited = i]
          ELSE loopComparator_VacuousTrue(some, rs, i + 1, ctx, legacy)

\* A loop that returns what the predicate gives for the first rule it visits
loopComparator_FirstRuleDecides(some, rs, i, ctx, legacy) ==
  IF i > Len(rs) THEN [Return(~some) EXCEPT !.visited = Len(rs)]
  ELSE [predicate(rs[i], ctx, legacy) EXCEPT !.visited = i]

\* A loop that applies the predicate to every rule before it aggregates:
\* rules.map(predicate).some(Boolean) / .every(Boolean)
RECURSIVE loopComparator_Eager(_, _, _, _, _)
loopComparator_Eager(some, rs, i, ctx, legacy) ==
  IF i > Len(rs) THEN [Return(~some) EXCEPT !.visited = Len(rs)]
  ELSE LET r == predicate(rs[i], ctx, legacy)
           rest == loopComparator_Eager(some, rs, i + 1, ctx, legacy)
       IN IF r.kind = "throw" THEN [r EXCEPT !.visited = i]
          ELSE IF rest.kind = "throw" THEN rest
          ELSE IF r.val = some THEN [Return(some) EXCEPT !.visited = Len(rs)]
          ELSE rest

\* A loop whose result on running out of rules is false in both modes
RECURSIVE loopComparator_VacuousFalse(_, _, _, _, _)
loopComparator_VacuousFalse(some, rs, i, ctx, legacy) ==
  IF i > Len(rs) THEN [Return(FALSE) EXCEPT !.visited = Len(rs)]
  ELSE LET r == predicate(rs[i], ctx, legacy)
       IN IF r.kind = "throw" THEN [r EXCEPT !.visited = i]
          ELSE IF r.val = some THEN [Return(some) EXCEPT !.visited = i]
          ELSE loopComparator_VacuousFalse(some, rs, i + 1, ctx, legacy)

\* rules.some(predicate) / rules.every(predicate) from index i on: the rules
\* are visited in order, the loop stops at the first deciding rule, and an
\* error raised by the predicate leaves the loop
RECURSIVE loopComparator(_, _, _, _, _)
loopComparator(some, rs, i, ctx, legacy) ==
  IF i > Len(rs) THEN [Return(~some) EXCEPT !.visited = Len(rs)]
  ELSE LET r == predicate(rs[i], ctx, legacy)
       IN IF r.kind = "throw" THEN [r EXCEPT !.visited = i]
          ELSE IF r.val = some THEN [Return(some) EXCEPT !.visited = i]
          ELSE loopComparator(some, rs, i + 1, ctx, legacy)

\* isContextValid with the loop comparator fixed to rules.some
isContextValid_SomeOnly(ctx, rs, options, legacy) ==
  loopComparator(TRUE, rs, 1, ctx, legacy)

\* isContextValid with the loop comparator fixed to rules.every
isContextValid_EveryOnly(ctx, rs, options, legacy) ==
  loopComparator(FALSE, rs, 1, ctx, legacy)

\* isContextValid with the two loop comparators exchanged
isContextValid_SwappedModes(ctx, rs, options, legacy) ==
  loopComparator(~options.someAreValid, rs, 1, ctx, legacy)

isContextValid(ctx, rs, options, legacy) ==
  loopComparator(options.someAreValid, rs, 1, ctx, legacy)

----------------------------------------------------------------------------
\* validateRule, validateRules

\* validateRule whose first check does not test the value
validateRule_ValueNotRequired(rule) ==
  IF ~Truthy(rule.attribute) \/ ~Truthy(rule.operator)
  THEN Throw(InvalidData("Rule must have an attribute, an operator and contextValue value", <<>>))
  ELSE IF ~isString(rule.attribute)
  THEN Throw(InvalidData("Rule attribute must be contextValue string", <<>>))
  ELSE IF ~isString(rule.operator)
  THEN Throw(InvalidData("Rule operator must be contextValue string", <<>>))
  ELSE IF ~\E i \in 1..Len(availableOperators) : availableOperators[i] = rule.operator.s
  THEN Throw(InvalidData("Rule operator ${0} is not supported. Must be one of ${1}",
                         <<rule.operator.s, Join(availableOperators, <<",", " ">>)>>))
  ELSE IF rule.operator.s = RuleOperator_IN \/ rule.operator.s = RuleOperator_NIN
  THEN IF rule.value.t # "array"
       THEN Throw(InvalidData("Rule value must be an array for in/nin operators", <<>>))
       ELSE Return(TRUE)
  ELSE IF ~isString(rule.value)
       THEN Throw(InvalidData("Rule value must be a string for the selected operator ${0}",
                              <<rule.operator.s>>))
       ELSE Return(TRUE)


\* validateRule whose first check tests for undefined instead of falsy
validateRule_OnlyUndefinedMissing(rule) ==
  IF rule.attribute = Undefined \/ rule.operator = Undefined \/ rule.value = Undefined
  THEN Throw(InvalidData("Rule must have an attribute, an operator and contextValue value", <<>>))
  ELSE IF ~isString(rule.attribute)
  THEN Throw(InvalidData("Rule attribute must be contextValue string", <<>>))
  ELSE IF ~isString(rule.operator)
  THEN Throw(InvalidData("Rule operator must be contextValue string", <<>>))
  ELSE IF ~\E i \in 1..Len(availableOperators) : availableOperators[i] = rule.operator.s
  THEN Throw(InvalidData("Rule operator ${0} is not supported. Must be one of ${1}",
                         <<rule.operator.s, Join(availableOperators, <<",", " ">>)>>))
  ELSE IF rule.operator.s = RuleOperator_IN \/ rule.operator.s = RuleOperator_NIN
  THEN IF rule.value.t # "array"
       THEN Throw(InvalidData("Rule value must be an array for in/nin operators", <<>>))
       ELSE Return(TRUE)
  ELSE IF ~isString(rule.value)
       THEN Throw(InvalidData("Rule value must be a string for the selected operator ${0}",
                              <<rule.operator.s>>))
       ELSE Return(TRUE)


\* validateRule without the check of the operator against availableOperators
validateRule_AnyOperator(rule) ==
  IF ~Truthy(rule.attribute) \/ ~Truthy(rule.operator) \/ ~Truthy(rule.value)
  THEN Throw(InvalidData("Rule must have an attribute, an operator and contextValue value", <<>>))
  ELSE IF ~isString(rule.attribute)
  THEN Throw(InvalidData("Rule attribute must be contextValue string", <<>>))
  ELSE IF ~isString(rule.operator)
  THEN Throw(InvalidData("Rule operator must be contextValue string", <<>>))
  ELSE IF FALSE
  THEN Throw(InvalidData("Rule operator ${0} is not supported. Must be one of ${1}",
                         <<rule.operator.s, Join(availableOperators, <<",", " ">>)>>))
  ELSE IF rule.operator.s = RuleOperator_IN \/ rule.operator.s = RuleOperator_NIN
  THEN IF rule.value.t # "array"
       THEN Throw(InvalidData("Rule value must be an array for in/nin operators", <<>>))
       ELSE Return(TRUE)
  ELSE IF ~isString(rule.value)
       THEN Throw(InvalidData("Rule value must be a string for the selected operator ${0}",
                              <<rule.operator.s>>))
       ELSE Return(TRUE)


\* validateRule without the string check of the value of a scalar operator
validateRule_ScalarAnyShape(rule) ==
  IF ~Truthy(rule.attribute) \/ ~Truthy(rule.operator) \/ ~Truthy(rule.value)
  THEN Throw(InvalidData("Rule must have an attribute, an operator and contextValue value", <<>>))
  ELSE IF ~isString(rule.attribute)
  THEN Throw(InvalidData("Rule attribute must be contextValue string", <<>>))
  ELSE IF ~isString(rule.operator)
  THEN Throw(InvalidData("Rule operator must be contextValue string", <<>>))
  ELSE IF ~\E i \in 1..Len(availableOperators) : availableOperators[i] = rule.operator.s
  THEN Throw(InvalidData("Rule operator ${0} is not supported. Must be one of ${1}",
                         <<rule.operator.s, Join(availableOperators, <<",", " ">>)>>))
  ELSE IF rule.operator.s = RuleOperator_IN \/ rule.operator.s = RuleOperator_NIN
  THEN IF rule.value.t # "array"
       THEN Throw(InvalidData("Rule value must be an array for in/nin operators", <<>>))
       ELSE Return(TRUE)
  ELSE IF FALSE
       THEN Throw(InvalidData("Rule value must be a string for the selected operator ${0}",
                              <<rule.operator.s>>))
       ELSE Return(TRUE)


\* validateRule that lowercases the operator before checking it
validateRule_LowercasedOperator(rule) ==
  LET lowered == IF isString(rule.operator)
              THEN [rule EXCEPT !.operator = Str(ToLowerCase(rule.operator.s))]
              ELSE rule
  IN
  IF ~Truthy(lowered.attribute) \/ ~Truthy(lowered.operator) \/ ~Truthy(lowered.value)
  THEN Throw(InvalidData("Rule must have an attribute, an operator and contextValue value", <<>>))
  ELSE IF ~isString(lowered.attribute)
  THEN Throw(InvalidData("Rule attribute must be contextValue string", <<>>))
  ELSE IF ~isString(lowered.operator)
  THEN Throw(InvalidData("Rule operator must be contextValue string", <<>>))
  ELSE IF ~\E i \in 1..Len(availableOperators) : availableOperators[i] = lowered.operator.s
  THEN Throw(InvalidData("Rule operator ${0} is not supported. Must be one of ${1}",
                         <<lowered.operator.s, Join(availableOperators, <<",", " ">>)>>))
  ELSE IF lowered.operator.s = RuleOperator_IN \/ lowered.operator.s = RuleOperator_NIN
  THEN IF lowered.value.t # "array"
       THEN Throw(InvalidData("Rule value must be an array for in/nin operators", <<>>))
       ELSE Return(TRUE)
  ELSE IF ~isString(lowered.value)
       THEN Throw(InvalidData("Rule value must be a string for the selected operator ${0}",
                              <<lowered.operator.s>>))
       ELSE Return(TRUE)

\* A validation that wants a non-empty array of strings for in/nin
validateRule_NonEmptyStringArray(rule) ==
  IF ~Truthy(rule.attribute) \/ ~Truthy(rule.operator) \/ ~Truthy(rule.value)
  THEN Throw(InvalidData("Rule must have an attribute, an operator and contextValue value", <<>>))
  ELSE IF ~isString(rule.attribute)
  THEN Throw(InvalidData("Rule attribute must be contextValue string", <<>>))
  ELSE IF ~isString(rule.operator)
  THEN Throw(InvalidData("Rule operator must be contextValue string", <<>>))
  ELSE IF ~\E i \in 1..Len(availableOperators) : availableOperators[i] = rule.operator.s
  THEN Throw(InvalidData("Rule operator ${0} is not supported. Must be one of ${1}",
                         <<rule.operator.s, Join(availableOperators, <<",", " ">>)>>))
  ELSE IF rule.operator.s = RuleOperator_IN \/ rule.operator.s = RuleOperator_NIN
  THEN IF \/ rule.value.t # "array"
          \/ rule.value.a = <<>>
          \/ \E i \in 1..Len(rule.value.a) : ~isString(rule.value.a[i])
       THEN Throw(InvalidData("Rule value must be an array for in/nin operators", <<>>))
       ELSE Return(TRUE)
  ELSE IF ~isString(rule.value)
       THEN Throw(InvalidData("Rule value must be a string for the selected operator ${0}",
                              <<rule.operator.s>>))
       ELSE Return(TRUE)

\* export function validateRule(rule)
validateRule(rule) ==
  IF ~Truthy(rule.attribute) \/ ~Truthy(rule.operator) \/ ~Truthy(rule.value)
  THEN Throw(InvalidData("Rule must have an attribute, an operator and contextValue value", <<>>))
  ELSE IF ~isString(rule.attribute)
  THEN Throw(InvalidData("Rule attribute must be contextValue string", <<>>))
  ELSE IF ~isString(rule.operator)
  THEN Throw(InvalidData("Rule operator must be contextValue string", <<>>))
  ELSE IF ~\E i \in 1..Len(availableOperators) : availableOperators[i] = rule.operator.s
  THEN Throw(InvalidData("Rule operator ${0} is not supported. Must be one of ${1}",
                         <<rule.operator.s, Join(availableOperators, <<",", " ">>)>>))
  ELSE IF rule.operator.s = RuleOperator_IN \/ rule.operator.s = RuleOperator_NIN
  THEN IF rule.value.t # "array"
       THEN Throw(InvalidData("Rule value must be an array for in/nin operators", <<>>))
       ELSE Return(TRUE)
  ELSE IF ~isString(rule.value)
       THEN Throw(InvalidData("Rule value must be a string for the selected operator ${0}",
                              <<rule.operator.s>>))
       ELSE Return(TRUE)

\* validateRules that validates every rule and raises the last error found
RECURSIVE validateRulesFrom_LastError(_, _)
validateRulesFrom_LastError(rs, i) ==
  IF i > Len(rs) THEN [Return(TRUE) EXCEPT !.visited = Len(rs)]
  ELSE LET r == validateRule(rs[i])
           rest == validateRulesFrom_LastError(rs, i + 1)
       IN IF rest.kind = "throw" THEN rest
          ELSE IF r.kind = "throw" THEN [r EXCEPT !.visited = Len(rs)]
          ELSE rest

\* validateRules that returns false at an invalid rule instead of raising
RECURSIVE validateRulesFrom_ReturnsFalse(_, _)
validateRulesFrom_ReturnsFalse(rs, i) ==
  IF i > Len(rs) THEN [Return(TRUE) EXCEPT !.visited = Len(rs)]
  ELSE LET r == validateRule(rs[i])
       IN IF r.kind = "throw" THEN [Return(FALSE) EXCEPT !.visited = i]
          ELSE validateRulesFrom_ReturnsFalse(rs, i + 1)

\* rules.forEach(validateRule); return true
RECURSIVE validateRulesFrom(_, _)
validateRulesFrom(rs, i) ==
  IF i > Len(rs) THEN [Return(TRUE) EXCEPT !.visited = Len(rs)]
  ELSE LET r == validateRule(rs[i])
       IN IF r.kind = "throw" THEN [r EXCEPT !.visited = i]
          ELSE validateRulesFrom(rs, i + 1)

validateRules(rs) == validateRulesFrom(rs, 1)

----------------------------------------------------------------------------
\* Inputs of the calls

S_plan == <<"p", "l", "a", "n">>

S_qty == <<"q", "t", "y">>

S_since == <<"s", "i", "n", "c", "e">>

S_customer == <<"c", "u", "s", "t", "o", "m", "e", "r">>

S_group == <<"g", "r", "o", "u", "p">>

S_customer_group == S_customer \o <<".">> \o S_group

S_pro == <<"p", "r", "o">>

S_free == <<"f", "r", "e", "e">>

S_vip == <<"v", "i", "p">>

S_abc == <<"a", "b", "c">>

S_5 == <<"5">>

S_10 == <<"1", "0">>

S_2024 == <<"2", "0", "2", "4">>

S_2023_01_01 == <<"2", "0", "2", "3", "-", "0", "1", "-", "0", "1">>

S_2024_01_01 == <<"2", "0", "2", "4", "-", "0", "1", "-", "0", "1">>

S_bogus == <<"b", "o", "g", "u", "s">>

S_EQ == <<"E", "Q">>

S_In == <<"I", "n">>

S_Gte == <<"G", "t", "e">>

Rule(attribute, operator, value) ==
  [attribute |-> attribute, operator |-> operator, value |-> value]

Contexts ==
  { Obj(<< <<S_plan, Str(S_pro)>>, <<S_qty, Str(S_10)>>,
           <<S_customer, Obj(<< <<S_group, Str(S_vip)>> >>)>>,
           <<S_since, Str(S_2024_01_01)>> >>),
    Obj(<< <<S_plan, Str(S_free)>>, <<S_qty, Num(5)>>, <<S_since, Num(2024)>> >>),
    Obj(<<>>) }

\* The rules the rule sets of several rules are drawn from: well-formed rules
\* over every operator, and rules validation has to reject
PoolRules ==
  { Rule(Str(S_plan), Str(op), v) :
      op \in {S_eq, S_ne, S_in, S_nin, S_EQ, S_bogus},
      v \in {Str(S_pro), Arr(<<Str(S_pro), Str(S_vip)>>)} }
  \cup
  { Rule(Str(S_customer_group), Str(S_eq), Str(S_vip)),
    Rule(Str(S_customer_group), Str(S_in), Arr(<<Str(S_pro), Str(S_vip)>>)),
    Rule(Str(S_qty), Str(S_gt), Str(S_5)),
    Rule(Str(S_qty), Str(S_lte), Str(S_5)),
    Rule(Str(S_qty), Str(S_gte), Str(S_10)),
    Rule(Str(S_qty), Str(S_lt), Str(S_10)),
    Rule(Str(S_since), Str(S_gt), Str(S_2023_01_01)),
    Rule(Str(S_plan), Str(S_in), Arr(<<>>)),
    Rule(Str(S_plan), Str(S_nin), Arr(<<Num(5), Null>>)),
    Rule(Str(S_plan), Str(S_in), Null) }

RECURSIVE SeqsUpTo(_, _)
SeqsUpTo(S, k) ==
  IF k = 0 THEN {<<>>}
  ELSE LET shorter == SeqsUpTo(S, k - 1)
       IN shorter \cup {Append(q, x) : q \in {p \in shorter : Len(p) = k - 1}, x \in S}

\* The raw rule records a single validateRule / isContextValid call is given
AttributeValues ==
  { Undefined, Null, Str(<<>>), Num(7), Arr(<<Str(S_plan)>>),
    Str(S_plan), Str(S_qty), Str(S_since), Str(S_customer_group) }

OperatorValues ==
  { Undefined, Str(<<>>), Num(1), Arr(<<Str(S_eq)>>) }
  \cup { Str(op) : op \in { S_in, S_nin, S_eq, S_ne, S_gt, S_gte, S_lt, S_lte,
                            S_EQ, S_In, S_Gte, S_bogus } }

RuleValues ==
  { Undefined, Null, NaN, Bool(FALSE), Bool(TRUE), Num(0), Num(5), Obj(<<>>),
    Str(<<>>), Str(S_pro), Str(S_vip), Str(S_abc), Str(S_5), Str(S_10),
    Str(S_2024), Str(S_2023_01_01),
    Arr(<<>>), Arr(<<Str(S_pro)>>), Arr(<<Str(S_free), Str(S_vip)>>), Arr(<<Num(5)>>) }

RawRules ==
  { Rule(at, op, v) : at \in AttributeValues, op \in OperatorValues, v \in RuleValues }

----------------------------------------------------------------------------
\* The product module and updateProductOptionsStep

\* The product options the module can hold
OptionUniverse ==
  << [id |-> "opt_1", title |-> "Size", product_id |-> "prod_1"],
     [id |-> "opt_2", title |-> "Color", product_id |-> "prod_1"],
     [id |-> "opt_3", title |-> "Size", product_id |-> "prod_2"] >>

OptionFields == {"id", "title", "product_id"}

\* data.selector: filters on fields of an option; the empty filter selects all
Selectors ==
  { <<>>, [id |-> "opt_1"], [title |-> "Size"], [product_id |-> "prod_2"],
    [title |-> "Material"] }

\* data.update
Updates == { [title |-> "Material"], [title |-> "Colour", product_id |-> "prod_1"] }

\* getSelectsAndRelationsFromObjectArray([data.update]): the keys of the
\* update are the fields to select; an update of scalars names no relation
getSelectsAndRelationsFromObjectArray(update) ==
  [selects |-> DOMAIN update, relations |-> {}]

SelectedBy(option, selector) ==
  \A f \in DOMAIN selector : option[f] = selector[f]

\* service.listOptions(selector, { select, relations }) on the stored options:
\* the options the selector matches, with the selected fields and the id
listOptions(stored, selector, config) ==
  LET found == SelectSeq(OptionUniverse,
                         LAMBDA o : o \in stored /\ SelectedBy(o, selector))
      fields == IF config.select = {} THEN OptionFields
                ELSE config.select \cup {"id"}
  IN [i \in 1..Len(found) |-> [f \in fields |-> found[i][f]]]

\* service.updateOptions(selector, update) on the stored options
updateOptions(stored, selector, update) ==
  { IF SelectedBy(o, selector)
    THEN [f \in OptionFields |-> IF f \in DOMAIN update THEN update[f] ELSE o[f]]
    ELSE o : o \in stored }

\* The compensation input of a step that gave no response
NoData == [defined |-> FALSE, items |-> <<>>]

\* new StepResponse(output, compensateInput)
StepResponse(output, compensateInput) ==
  [output |-> output, compensateInput |-> [defined |-> TRUE, items |-> compensateInput]]

\* The step before it is invoked; resolved lists the functions of the step
\* that called container.resolve
NotInvoked ==
  [phase |-> "idle", data |-> [selector |-> <<>>, update |-> <<>>],
   response |-> [output |-> <<>>, compensateInput |-> NoData], resolved |-> {}]

----------------------------------------------------------------------------
\* Concurrent invocations

\* The invocations in flight at the same time
Invocations == {"a", "b"}

InvocationKinds == {"isContextValid", "validateRule", "validateRules"}

\* An invocation slot nothing runs in
NoInvocation ==
  [kind |-> "none", ctx |-> Obj(<<>>), rs |-> <<>>, options |-> DefaultOptions,
   i |-> 1, done |-> TRUE, out |-> Return(FALSE)]

----------------------------------------------------------------------------
\* The calls

NoCall == [op |-> "none", options |-> DefaultOptions, index |-> 0, out |-> Return(FALSE)]

\* Rule sets of up to MaxRules rules, evaluated and validated against a context
Init ==
  /\ context \in Contexts
  /\ rules \in SeqsUpTo(PoolRules, MaxRules)
  /\ legacyDates \in BOOLEAN
  /\ ret = NoCall
  /\ moduleOptions = {}
  /\ step = NotInvoked
  /\ inflight = [p \in Invocations |-> NoInvocation]

\* One raw rule record of any shape
InitRule ==
  /\ context \in Contexts
  /\ rules \in {<<r>> : r \in RawRules}
  /\ legacyDates \in BOOLEAN
  /\ ret = NoCall
  /\ moduleOptions = {}
  /\ step = NotInvoked
  /\ inflight = [p \in Invocations |-> NoInvocation]

\* isContextValid(context, rules)
CallIsContextValidDefault ==
  /\ ret' = [op |-> "isContextValid", options |-> DefaultOptions, index |-> 0,
             out |-> isContextValid(context, rules, DefaultOptions, legacyDates)]
  /\ UNCHANGED <<context, rules, legacyDates, moduleOptions, step, inflight>>

\* isContextValid(context, rules, { someAreValid })
CallIsContextValid(someAreValid) ==
  /\ ret' = [op |-> "isContextValid", options |-> Options(someAreValid), index |-> 0,
             out |-> isContextValid(context, rules, Options(someAreValid), legacyDates)]
  /\ UNCHANGED <<context, rules, legacyDates, moduleOptions, step, inflight>>

\* validateRule(rules[i]) that stores the lowercased operator in the rule
CallValidateRule_WritesBack(i) ==
  /\ ret' = [op |-> "validateRule", options |-> DefaultOptions, index |-> i,
             out |-> validateRule(rules[i])]
  /\ rules' = [rules EXCEPT ![i].operator =
                 IF isString(@) THEN Str(ToLowerCase(@.s)) ELSE @]
  /\ UNCHANGED <<context, legacyDates, moduleOptions, step, inflight>>

\* validateRule(rules[i])
CallValidateRule(i) ==
  /\ ret' = [op |-> "validateRule", options |-> DefaultOptions, index |-> i,
             out |-> validateRule(rules[i])]
  /\ UNCHANGED <<context, rules, legacyDates, moduleOptions, step, inflight>>

\* validateRules(rules)
CallValidateRules ==
  /\ ret' = [op |-> "validateRules", options |-> DefaultOptions, index |-> 0,
             out |-> validateRules(rules)]
  /\ UNCHANGED <<context, rules, legacyDates, moduleOptions, step, inflight>>

Next ==
  \/ CallIsContextValidDefault
  \/ \E someAreValid \in BOOLEAN : CallIsContextValid(someAreValid)
  \/ \E i \in 1..Len(rules) : CallValidateRule(i)
  \/ CallValidateRules

Spec == Init /\ [][Next]_vars

SpecRule == InitRule /\ [][Next]_vars

----------------------------------------------------------------------------
\* updateProductOptionsStep and its compensation

InitStep ==
  /\ context = Obj(<<>>)
  /\ rules = <<>>
  /\ legacyDates = FALSE
  /\ ret = NoCall
  /\ moduleOptions \in SUBSET {OptionUniverse[i] : i \in DOMAIN OptionUniverse}
  /\ step = NotInvoked
  /\ inflight = [p \in Invocations |-> NoInvocation]

\* The step function with the call of service.updateOptions in place
InvokeStep_Updates(selector, update, rejects) ==
  /\ step.phase = "idle"
  /\ LET config == getSelectsAndRelationsFromObjectArray(update)
         prevData == listOptions(moduleOptions,
                                 selector,
                                 [select |-> config.selects, relations |-> config.relations])
         updated == updateOptions(moduleOptions, selector, update)
         productOptions == listOptions(updated, <<>>, [select |-> {}, relations |-> {}])
     IN IF rejects
        THEN /\ step' = [step EXCEPT !.phase = "failed",
                                     !.data = [selector |-> selector, update |-> update],
                                     !.resolved = @ \cup {"invoke"}]
             /\ UNCHANGED moduleOptions
        ELSE /\ step' = [step EXCEPT !.phase = "done",
                                     !.data = [selector |-> selector, update |-> update],
                                     !.response = StepResponse(productOptions, prevData),
                                     !.resolved = @ \cup {"invoke"}]
             /\ moduleOptions' = updated
  /\ UNCHANGED <<context, rules, legacyDates, ret, inflight>>

\* The step function: it resolves the product module, lists the options the
\* selector matches and responds with an empty list and the listed options;
\* when listOptions rejects the step fails without a response
InvokeStep(selector, update, rejects) ==
  /\ step.phase = "idle"
  /\ LET config == getSelectsAndRelationsFromObjectArray(update)
         prevData == listOptions(moduleOptions,
                                 selector,
                                 [select |-> config.selects, relations |-> config.relations])
         productOptions == <<>>
     IN IF rejects
        THEN step' = [step EXCEPT !.phase = "failed",
                                  !.data = [selector |-> selector, update |-> update],
                                  !.resolved = @ \cup {"invoke"}]
        ELSE step' = [step EXCEPT !.phase = "done",
                                  !.data = [selector |-> selector, update |-> update],
                                  !.response = StepResponse(productOptions, prevData),
                                  !.resolved = @ \cup {"invoke"}]
  /\ UNCHANGED <<context, rules, legacyDates, ret, moduleOptions, inflight>>

\* The compensation function, called with the compensation input of the
\* response, or with undefined when the step gave none
CompensateStep ==
  /\ step.phase \in {"done", "failed"}
  /\ LET prevData == step.response.compensateInput
     IN IF ~prevData.defined \/ Len(prevData.items) = 0
        THEN step' = [step EXCEPT !.phase = "compensated"]
        ELSE step' = [step EXCEPT !.phase = "compensated",
                                  !.resolved = @ \cup {"compensate"}]
  /\ UNCHANGED <<context, rules, legacyDates, ret, moduleOptions, inflight>>

NextStep ==
  \/ \E selector \in Selectors, update \in Updates, rejects \in BOOLEAN :
       InvokeStep(selector, update, rejects)
  \/ CompensateStep

SpecStep == InitStep /\ [][NextStep]_vars

----------------------------------------------------------------------------
\* Invocations that interleave: each one has its own context and rule set and
\* advances by one rule at a time

ConcurrentContexts == {c \in Contexts : pickValueFromObject(S_plan, c) # Undefined}

ConcurrentRules ==
  { Rule(Str(S_plan), Str(S_eq), Str(S_pro)),
    Rule(Str(S_plan), Str(S_bogus), Str(S_pro)) }

\* An invocation on entry
Invocation(kind, ctx, rs, options) ==
  [kind |-> kind, ctx |-> ctx, rs |-> rs, options |-> options,
   i |-> 1, done |-> FALSE, out |-> Return(FALSE)]

Entered ==
  { Invocation("isContextValid", ctx, rs, Options(b)) :
      ctx \in ConcurrentContexts, rs \in SeqsUpTo(ConcurrentRules, MaxRules),
      b \in BOOLEAN }
  \cup { Invocation("validateRules", ctx, rs, DefaultOptions) :
           ctx \in ConcurrentContexts, rs \in SeqsUpTo(ConcurrentRules, MaxRules) }
  \cup { Invocation("validateRule", ctx, <<r>>, DefaultOptions) :
           ctx \in ConcurrentContexts, r \in ConcurrentRules }

InitConcurrent ==
  /\ context = Obj(<<>>)
  /\ rules = <<>>
  /\ legacyDates = FALSE
  /\ ret = NoCall
  /\ moduleOptions = {}
  /\ step = NotInvoked
  /\ inflight \in [Invocations -> Entered]

\* The invocation as it is after its next rule
Advanced(v, ctx, legacy) ==
  LET finish(out, visited) ==
        [v EXCEPT !.done = TRUE, !.out = [out EXCEPT !.visited = visited]]
      some == v.options.someAreValid
  IN CASE v.kind = "isContextValid" ->
            IF v.i > Len(v.rs) THEN finish(Return(~some), Len(v.rs))
            ELSE LET r == predicate(v.rs[v.i], ctx, legacy)
                 IN IF r.kind = "throw" THEN finish(r, v.i)
                    ELSE IF r.val = some THEN finish(Return(some), v.i)
                    ELSE [v EXCEPT !.i = @ + 1]
       [] v.kind = "validateRules" ->
            IF v.i > Len(v.rs) THEN finish(Return(TRUE), Len(v.rs))
            ELSE LET r == validateRule(v.rs[v.i])
                 IN IF r.kind = "throw" THEN finish(r, v.i)
                    ELSE [v EXCEPT !.i = @ + 1]
       [] OTHER -> finish(validateRule(v.rs[1]), 0)

\* An evaluation that keeps the context in a variable of the module, assigned
\* on entry and read for every later rule
Advance_SharedContext(p) ==
  /\ ~inflight[p].done
  /\ LET entering == inflight[p].i = 1
         ctx == IF entering THEN inflight[p].ctx ELSE context
     IN /\ inflight' = [inflight EXCEPT ![p] = Advanced(@, ctx, legacyDates)]
        /\ context' = ctx
  /\ UNCHANGED <<rules, legacyDates, ret, moduleOptions, step>>

\* Invocation p evaluates or validates its next rule; the other invocations
\* stay where they are
Advance(p) ==
  /\ ~inflight[p].done
  /\ inflight' = [inflight EXCEPT ![p] = Advanced(@, @.ctx, legacyDates)]
  /\ UNCHANGED <<context, rules, legacyDates, ret, moduleOptions, step>>

NextConcurrent == \E p \in Invocations : Advance(p)

SpecConcurrent == InitConcurrent /\ [][NextConcurrent]_vars

----------------------------------------------------------------------------
\* Properties of isContextValid

\* What one rule does on the context of the state, apart from any loop
Outcome(rule) == predicate(rule, context, legacyDates)

Matches(rule) == Outcome(rule).kind = "return" /\ Outcome(rule).val

Fails(rule) == Outcome(rule).kind = "return" /\ ~Outcome(rule).val

ReturnedTrue == ret.out.kind = "return" /\ ret.out.val

ReturnedFalse == ret.out.kind = "return" /\ ~ret.out.val

EvaluatedAnd == ret.op = "isContextValid" /\ ~ret.options.someAreValid

EvaluatedOr == ret.op = "isContextValid" /\ ret.options.given /\ ret.options.someAreValid

OneMatchesOneFails ==
  /\ Len(rules) = 2
  /\ \/ Matches(rules[1]) /\ Fails(rules[2])
     \/ Fails(rules[1]) /\ Matches(rules[2])

\* C1: with options omitted or someAreValid = false, isContextValid returns
\* true exactly when every rule of the rule set matches the context, and a
\* rule set of one matching and one non-matching rule evaluates to false.
C1_AndRequiresEveryRule ==
  EvaluatedAnd =>
    /\ ReturnedTrue <=> \A i \in 1..Len(rules) : Matches(rules[i])
    /\ OneMatchesOneFails => ReturnedFalse

C1_Witness == EvaluatedAnd /\ OneMatchesOneFails /\ ReturnedFalse

\* Every rule of the rule set can be applied to the context: none raises
EveryRuleApplies == \A i \in 1..Len(rules) : Outcome(rules[i]).kind = "return"

\* C2: with someAreValid = true, isContextValid returns true exactly when at
\* least one rule of the rule set matches the context (the rules being ones
\* the predicates can be applied to), and a rule set of one matching and one
\* non-matching rule evaluates to true.
C2_OrRequiresSomeRule ==
  EvaluatedOr =>
    /\ EveryRuleApplies => (ReturnedTrue <=> \E i \in 1..Len(rules) : Matches(rules[i]))
    /\ ReturnedTrue => \E i \in 1..Len(rules) : Matches(rules[i])
    /\ OneMatchesOneFails => ReturnedTrue

C2_Witness == EvaluatedOr /\ OneMatchesOneFails /\ ReturnedTrue

\* C3: with the default options, isContextValid(context, []) returns true for
\* every context.
C3_EmptyRuleSetDefaultTrue ==
  (ret.op = "isContextValid" /\ ~ret.options.given /\ rules = <<>>) => ReturnedTrue

C3_Witness ==
  ret.op = "isContextValid" /\ ~ret.options.given /\ rules = <<>> /\ ReturnedTrue

\* C4 as stated: the empty rule set evaluates to true for both values of
\* someAreValid.
C4_EmptyRuleSetAlwaysTrue ==
  (ret.op = "isContextValid" /\ rules = <<>>) => ReturnedTrue

\* C4 amended: the empty rule set evaluates to true when someAreValid is
\* false or omitted and to false when someAreValid is true, for every context.
C4_EmptyRuleSetByMode ==
  (ret.op = "isContextValid" /\ rules = <<>>) =>
    IF ret.options.someAreValid THEN ReturnedFalse ELSE ReturnedTrue

C4_Witness == EvaluatedOr /\ rules = <<>> /\ ReturnedFalse

\* C5: a rule set that passes validateRules is evaluated without failure:
\* isContextValid returns a boolean, in both modes and for every context.
C5_ValidatedRulesEvaluate ==
  (ret.op = "isContextValid" /\ validateRules(rules).kind = "return") =>
    ret.out.kind = "return" /\ ret.out.val \in BOOLEAN /\ ret.out.err = NoError

C5_Witness ==
  /\ ret.op = "isContextValid"
  /\ Len(rules) = 2
  /\ validateRules(rules).kind = "return"
  /\ rules[1].operator.s = S_nin
  /\ rules[2].operator.s = S_lte
  /\ ret.out.kind = "return"
  /\ ret.out.visited = 2

----------------------------------------------------------------------------
\* Properties of validateRule

\* The operators the rule descriptor admits
OperatorNames == {<<"i", "n">>, <<"n", "i", "n">>, <<"e", "q">>, <<"n", "e">>,
                  <<"g", "t">>, <<"g", "t", "e">>, <<"l", "t">>, <<"l", "t", "e">>}

SequenceOperatorNames == {<<"i", "n">>, <<"n", "i", "n">>}

ValidatedRule == rules[ret.index]

Validated == ret.op = "validateRule"

Accepted == ret.out.kind = "return" /\ ret.out.val

RejectedInvalidData == ret.out.kind = "throw" /\ ret.out.err.type = "INVALID_DATA"

NonEmptyString(v) == v.t = "string" /\ Len(v.s) > 0

\* The values ToBoolean takes to false
FalsyValues == {Undefined, Null, NaN, Bool(FALSE), Num(0), Str(<<>>)}

\* C6: validateRule returns true exactly when attribute is a non-empty
\* string, operator is one of the eight operator names, and value is a
\* sequence for in/nin or a non-empty string for the other operators; on
\* every other rule record it fails with InvalidData.
C6_ValidateRuleAcceptsExactly ==
  Validated =>
    LET r == ValidatedRule
        wellFormed ==
          /\ NonEmptyString(r.attribute)
          /\ r.operator.t = "string"
          /\ r.operator.s \in OperatorNames
          /\ IF r.operator.s \in SequenceOperatorNames
             THEN r.value.t = "array"
             ELSE NonEmptyString(r.value)
    IN IF wellFormed THEN Accepted ELSE RejectedInvalidData

C6_Witness ==
  /\ Validated
  /\ NonEmptyString(ValidatedRule.attribute)
  /\ ValidatedRule.operator = Str(S_gte)
  /\ ValidatedRule.value = Arr(<<Str(S_pro)>>)
  /\ RejectedInvalidData

\* C7: validateRule fails with InvalidData whenever attribute, operator or
\* value is missing or falsy; a value of "", 0 or null is rejected even with a
\* valid attribute and operator.
C7_FalsyFieldRejected ==
  (Validated /\ \/ ValidatedRule.attribute \in FalsyValues
                \/ ValidatedRule.operator \in FalsyValues
                \/ ValidatedRule.value \in FalsyValues)
    => RejectedInvalidData

C7_Witness ==
  /\ Validated
  /\ ValidatedRule.attribute = Str(S_plan)
  /\ ValidatedRule.operator = Str(S_eq)
  /\ ValidatedRule.value = Str(<<>>)
  /\ RejectedInvalidData

\* The operators an error message names: the items of its ", " separated list
ListedOperators(err) ==
  IF Len(err.args) < 2 THEN {}
  ELSE LET items == Split(err.args[2], ",")
       IN { IF items[i] # <<>> /\ items[i][1] = " " THEN Tail(items[i]) ELSE items[i] :
              i \in 1..Len(items) }

UnsupportedOperator(r) == r.operator.t = "string" /\ r.operator.s \notin OperatorNames

\* C8 as stated: for every rule whose operator is a string outside the
\* operator set, whatever its attribute and value, validateRule fails with
\* InvalidData and the error message lists every valid operator.
C8_UnsupportedOperatorListsOperators ==
  (Validated /\ UnsupportedOperator(ValidatedRule)) =>
    RejectedInvalidData /\ OperatorNames \subseteq ListedOperators(ret.out.err)

\* C8 amended: for every rule whose operator is a string outside the operator
\* set, whatever its attribute and value, validateRule fails with InvalidData;
\* the error message lists every valid operator when the attribute is a
\* non-empty string and the operator and value are truthy.
C8_UnsupportedOperatorRejected ==
  (Validated /\ UnsupportedOperator(ValidatedRule)) =>
    /\ RejectedInvalidData
    /\ (/\ NonEmptyString(ValidatedRule.attribute)
        /\ ValidatedRule.operator.s # <<>>
        /\ ValidatedRule.value \notin FalsyValues)
       => OperatorNames \subseteq ListedOperators(ret.out.err)

C8_Witness ==
  /\ Validated
  /\ ValidatedRule.attribute = Str(S_plan)
  /\ ValidatedRule.operator = Str(S_bogus)
  /\ ValidatedRule.value = Str(S_pro)
  /\ RejectedInvalidData
  /\ OperatorNames \subseteq ListedOperators(ret.out.err)

\* C9: with operator in or nin validateRule fails with InvalidData when value
\* is not a sequence and succeeds when it is one (the attribute being a
\* non-empty string); with any other valid operator it fails with InvalidData
\* when value is not a single string, a sequence included.
C9_ArityEnforced ==
  (Validated /\ ValidatedRule.operator.t = "string"
             /\ ValidatedRule.operator.s \in OperatorNames) =>
    LET r == ValidatedRule
    IN IF r.operator.s \in SequenceOperatorNames
       THEN /\ r.value.t # "array" => RejectedInvalidData
            /\ (r.value.t = "array" /\ NonEmptyString(r.attribute)) => Accepted
       ELSE r.value.t # "string" => RejectedInvalidData

C9_Witness ==
  /\ Validated
  /\ ValidatedRule.operator = Str(S_lt)
  /\ ValidatedRule.attribute = Str(S_qty)
  /\ ValidatedRule.value = Arr(<<Num(5)>>)
  /\ RejectedInvalidData

\* The operator is a valid operator name written with other letter case
CaseVariant(r) ==
  /\ r.operator.t = "string"
  /\ r.operator.s \notin OperatorNames
  /\ ToLowerCase(r.operator.s) \in OperatorNames

Lowercased(r) == [r EXCEPT !.operator = Str(ToLowerCase(r.operator.s))]

\* C10 as stated: a rule whose operator differs from a valid operator only in
\* letter case is accepted by validateRule as its lowercase form is, and
\* isContextValid evaluates it as the lowercase operator.
C10_OperatorCaseInsensitive ==
  (Len(rules) = 1 /\ CaseVariant(rules[1])) =>
    /\ Validated => ret.out = validateRule(Lowercased(rules[1]))
    /\ ret.op = "isContextValid" =>
         ret.out = isContextValid(context, <<Lowercased(rules[1])>>, ret.options, legacyDates)

\* C10 amended: operators are case-sensitive: a rule whose operator differs
\* from a valid operator only in letter case is rejected by validateRule with
\* InvalidData, and isContextValid raises an error when it evaluates such a
\* rule instead of evaluating it as the lowercase operator.
C10_OperatorCaseSensitive ==
  (Len(rules) = 1 /\ CaseVariant(rules[1])) =>
    /\ Validated => RejectedInvalidData
    /\ ret.op = "isContextValid" =>
         ret.out.kind = "throw" /\ ret.out.err.type = "TypeError"

C10_Witness ==
  /\ Validated
  /\ ValidatedRule = Rule(Str(S_plan), Str(S_EQ), Str(S_pro))
  /\ validateRule(Lowercased(ValidatedRule)).kind = "return"
  /\ RejectedInvalidData
  /\ ret.out.err.args # <<>>

----------------------------------------------------------------------------
\* Properties of validateRules

ValidatedAll == ret.op = "validateRules"

InvalidAt(i) == validateRule(rules[i]).kind = "throw"

HasInvalid == \E i \in 1..Len(rules) : InvalidAt(i)

FirstInvalid == CHOOSE i \in 1..Len(rules) : InvalidAt(i) /\ \A j \in 1..(i - 1) : ~InvalidAt(j)

\* C11: validateRules fails fast: when the sequence contains an invalid rule
\* it fails with the error of the lowest-index invalid rule, and no rule
\* after that one is validated.
C11_ValidateRulesFailsFast ==
  (ValidatedAll /\ HasInvalid) =>
    /\ ret.out.kind = "throw"
    /\ ret.out.err = validateRule(rules[FirstInvalid]).err
    /\ ret.out.visited = FirstInvalid

C11_Witness ==
  /\ ValidatedAll
  /\ Len(rules) = 2
  /\ InvalidAt(1)
  /\ InvalidAt(2)
  /\ validateRule(rules[1]).err # validateRule(rules[2]).err
  /\ ret.out.kind = "throw"
  /\ ret.out.visited = 1

\* C12: validateRules returns true exactly when validateRule succeeds on
\* every element; otherwise it fails (it never returns false), and
\* validateRules([]) returns true.
C12_ValidateRulesAllOrFail ==
  ValidatedAll =>
    /\ ReturnedTrue <=>
         \A i \in 1..Len(rules) :
           validateRule(rules[i]).kind = "return" /\ validateRule(rules[i]).val
    /\ ~ReturnedTrue => ret.out.kind = "throw"
    /\ rules = <<>> => ReturnedTrue

C12_Witness ==
  /\ ValidatedAll
  /\ Len(rules) = 2
  /\ ~InvalidAt(1)
  /\ InvalidAt(2)
  /\ ret.out.kind = "throw"

----------------------------------------------------------------------------
\* Properties of the operators, on a rule set of one rule

TheRule == rules[1]

\* One rule with the given operator and a string attribute was evaluated
EvaluatedOne(op) ==
  /\ ret.op = "isContextValid"
  /\ Len(rules) = 1
  /\ TheRule.attribute.t = "string"
  /\ TheRule.operator = Str(op)

\* The value of the context at the rule's attribute
Resolved == pickValueFromObject(TheRule.attribute.s, context)

\* The result of evaluating the rule with another operator in its place
ResultWith(op) ==
  isContextValid(context, <<[TheRule EXCEPT !.operator = Str(op)]>>, ret.options, legacyDates)

\* C13: a single eq rule with string value v evaluates to true exactly when
\* the value resolved from the context at its attribute is the string v; it is
\* false when the attribute path is absent from the context.
C13_EqIsStrictEquality ==
  (EvaluatedOne(<<"e", "q">>) /\ TheRule.value.t = "string") =>
    /\ ret.out.kind = "return"
    /\ ReturnedTrue <=> Resolved = TheRule.value
    /\ Resolved = Undefined => ReturnedFalse

C13_Witness ==
  /\ EvaluatedOne(<<"e", "q">>)
  /\ TheRule.attribute = Str(S_customer_group)
  /\ TheRule.value = Str(S_vip)
  /\ Resolved = Str(S_vip)
  /\ ReturnedTrue

\* C14: a single in rule with a sequence value evaluates to true exactly when
\* the value resolved from the context at its attribute is a member of the
\* sequence.
C14_InIsMembership ==
  (EvaluatedOne(<<"i", "n">>) /\ TheRule.value.t = "array") =>
    /\ ret.out.kind = "return"
    /\ ReturnedTrue <=>
         /\ Resolved.t \notin {"array", "object"}
         /\ \E i \in 1..Len(TheRule.value.a) : TheRule.value.a[i] = Resolved

C14_Witness ==
  /\ EvaluatedOne(<<"i", "n">>)
  /\ TheRule.value = Arr(<<Str(S_free), Str(S_vip)>>)
  /\ Resolved = Str(S_free)
  /\ ReturnedTrue

\* C15: nin is the exact negation of in: a single nin rule with a sequence
\* value evaluates to the negation of the in rule with the same attribute and
\* value, also when the attribute is absent or the sequence is empty.
C15_NinNegatesIn ==
  (EvaluatedOne(<<"n", "i", "n">>) /\ TheRule.value.t = "array") =>
    /\ ret.out.kind = "return"
    /\ ResultWith(<<"i", "n">>).kind = "return"
    /\ ret.out.val = ~ResultWith(<<"i", "n">>).val

C15_Witness ==
  /\ EvaluatedOne(<<"n", "i", "n">>)
  /\ TheRule.value = Arr(<<Str(S_pro)>>)
  /\ Resolved = Undefined
  /\ ReturnedTrue

\* C16: ne is the exact negation of eq: a single ne rule with a string value
\* evaluates to true exactly when the resolved context value is not strictly
\* equal to the rule value, the negation of the eq result on the same inputs.
C16_NeNegatesEq ==
  (EvaluatedOne(<<"n", "e">>) /\ TheRule.value.t = "string") =>
    /\ ret.out.kind = "return"
    /\ ReturnedTrue <=> Resolved # TheRule.value
    /\ ResultWith(<<"e", "q">>).kind = "return"
    /\ ret.out.val = ~ResultWith(<<"e", "q">>).val

C16_Witness ==
  /\ EvaluatedOne(<<"n", "e">>)
  /\ TheRule.value = Str(S_5)
  /\ Resolved = Num(5)
  /\ ReturnedTrue

----------------------------------------------------------------------------
\* Properties of gt, gte, lt and lte, on a rule set of one rule

OrderingNames == {<<"g", "t">>, <<"g", "t", "e">>, <<"l", "t">>, <<"l", "t", "e">>}

EvaluatedOrdering == \E op \in OrderingNames : EvaluatedOne(op)

\* The comparison an ordering operator stands for
ComparisonOf(op) ==
  CASE op = <<"g", "t">> -> "gt"
    [] op = <<"g", "t", "e">> -> "gte"
    [] op = <<"l", "t">> -> "lt"
    [] OTHER -> "lte"

ParsedDate(v) == DateParse(v, legacyDates)

BothParseAsDates == ParsedDate(Resolved).valid /\ ParsedDate(TheRule.value).valid

\* C17: for gt, gte, lt and lte, when the resolved context value and the rule
\* value both parse as valid dates the result is the comparison of the two
\* parsed dates, and in every other case it is the comparison of the two
\* values coerced to numbers.
C17_OrderingDatesElseNumbers ==
  (EvaluatedOrdering /\ TheRule.value.t = "string") =>
    /\ ret.out.kind = "return"
    /\ ret.out.val =
         IF BothParseAsDates
         THEN DateCompare(ComparisonOf(TheRule.operator.s),
                          ParsedDate(Resolved), ParsedDate(TheRule.value))
         ELSE NumberCompare(ComparisonOf(TheRule.operator.s),
                            ToNumber(Resolved), ToNumber(TheRule.value))

\* C18: when the two values are not both dates and at least one of them does
\* not coerce to a number, gt, gte, lt and lte all evaluate to false.
C18_NaNComparesFalse ==
  (/\ EvaluatedOrdering
   /\ ~BothParseAsDates
   /\ ToNumber(Resolved) = NaN \/ ToNumber(TheRule.value) = NaN)
  => ReturnedFalse

C18_Witness ==
  /\ EvaluatedOne(<<"l", "t", "e">>)
  /\ Resolved = Str(S_pro)
  /\ TheRule.value = Str(S_5)
  /\ ReturnedFalse

----------------------------------------------------------------------------
\* Properties of the calls as a whole

\* The orders the rules of the state can be given in
Permutations ==
  LET n == Len(rules)
  IN { [i \in 1..n |-> rules[p[i]]] :
         p \in {f \in [1..n -> 1..n] : \A i, j \in 1..n : f[i] = f[j] => i = j} }

\* C19: rule order does not affect the result: for a rule set whose rules
\* satisfy the rule invariants, isContextValid returns the same boolean for
\* every permutation of the rule set, in both modes and for every context.
C19_OrderIndependent ==
  (ret.op = "isContextValid" /\ validateRules(rules).kind = "return") =>
    \A p \in Permutations :
      LET other == isContextValid(context, p, ret.options, legacyDates)
      IN other.kind = "return" /\ ret.out.kind = "return" /\ other.val = ret.out.val

C19_Witness ==
  /\ EvaluatedOr
  /\ validateRules(rules).kind = "return"
  /\ Len(rules) = 2
  /\ Fails(rules[1])
  /\ Matches(rules[2])
  /\ ReturnedTrue

\* The same call as the one before it
SameCallAgain ==
  /\ ret.op # "none"
  /\ ret'.op = ret.op
  /\ ret'.options = ret.options
  /\ ret'.index = ret.index

\* C20: isContextValid, validateRule and validateRules are read-only and
\* stateless: no call changes the context, the rule set or a rule record, and
\* a call repeated with the same arguments has the same outcome.
C20_CallsAreReadOnly ==
  [][/\ context' = context
     /\ rules' = rules
     /\ SameCallAgain => ret'.out = ret.out]_vars

C20_Witness ==
  /\ ret.op = "validateRule"
  /\ rules[ret.index].operator = Str(S_EQ)
  /\ validateRule(Lowercased(rules[ret.index])).kind = "return"
  /\ ret.out.kind = "throw"

----------------------------------------------------------------------------
\* Properties of the evaluation loop

\* The operator of the rule is not a key of the predicate table
Unregistered(rule) ==
  /\ rule.operator.t = "string"
  /\ rule.operator.s \notin OperatorNames

\* The rule decides the loop of the call of the state: a non-matching rule
\* under AND, a matching rule under OR
Decides(rule) == IF ret.options.someAreValid THEN Matches(rule) ELSE Fails(rule)

\* The loop gets as far as rule k: no rule before it decides or raises
Reaches(k) ==
  \A j \in 1..(k - 1) : Outcome(rules[j]).kind = "return" /\ ~Decides(rules[j])

----------------------------------------------------------------------------
\* Ordering operators: precedence of the date check, absent attributes

CoerceToNumbers == ToNumber(Resolved) # NaN /\ ToNumber(TheRule.value) # NaN

\* C24: the date check takes precedence over the numeric comparison: whenever
\* the context value and the rule value both parse as dates, gt, gte, lt and
\* lte return the comparison of the two dates even if both values also coerce
\* to numbers, and the numeric comparison is the result only when at least one
\* side fails the date check.
C24_DateCheckTakesPrecedence ==
  (EvaluatedOrdering /\ TheRule.value.t = "string" /\ CoerceToNumbers) =>
    /\ ret.out.kind = "return"
    /\ BothParseAsDates =>
         ret.out.val = DateCompare(ComparisonOf(TheRule.operator.s),
                                   ParsedDate(Resolved), ParsedDate(TheRule.value))
    /\ ~BothParseAsDates =>
         ret.out.val = NumberCompare(ComparisonOf(TheRule.operator.s),
                                     ToNumber(Resolved), ToNumber(TheRule.value))

\* C25: when the attribute path of the rule does not exist in the context, a
\* single rule with operator gt, gte, lt or lte evaluates to false for every
\* rule value, and isContextValid does not raise.
C25_AbsentAttributeOrdersFalse ==
  (EvaluatedOrdering /\ Resolved = Undefined) => ReturnedFalse

C25_Witness ==
  /\ EvaluatedOne(<<"l", "t", "e">>)
  /\ Resolved = Undefined
  /\ TheRule.value = Str(S_5)
  /\ legacyDates
  /\ ReturnedFalse

ArrayOfStrings(v) ==
  v.t = "array" /\ \A i \in 1..Len(v.a) : v.a[i].t = "string"

\* C26: when the attribute path of the rule does not exist in the context, a
\* single rule with operator ne and any string value, or with operator nin
\* and any sequence of strings, evaluates to true.
C26_AbsentAttributeMatchesNegatives ==
  /\ (EvaluatedOne(<<"n", "e">>) /\ Resolved = Undefined /\ TheRule.value.t = "string")
       => ReturnedTrue
  /\ (EvaluatedOne(<<"n", "i", "n">>) /\ Resolved = Undefined /\ ArrayOfStrings(TheRule.value))
       => ReturnedTrue

C26_Witness ==
  /\ EvaluatedOne(<<"n", "i", "n">>)
  /\ context = Obj(<<>>)
  /\ TheRule.attribute = Str(S_plan)
  /\ TheRule.value = Arr(<<Str(S_free), Str(S_vip)>>)
  /\ ReturnedTrue

----------------------------------------------------------------------------
\* in / nin over unusual sequences

EmptySequence == Arr(<<>>)

\* C29: for in and nin validateRule checks only that the value is a sequence:
\* it accepts an empty sequence and a sequence with non-string elements; a
\* validated in rule with an empty sequence matches no context, and a
\* validated nin rule with an empty sequence matches every context.
C29_SequenceShapeOnly ==
  /\ (/\ Validated
      /\ NonEmptyString(ValidatedRule.attribute)
      /\ ValidatedRule.operator.t = "string"
      /\ ValidatedRule.operator.s \in SequenceOperatorNames)
     => (Accepted <=> ValidatedRule.value.t = "array")
  /\ (/\ EvaluatedOne(<<"i", "n">>)
      /\ validateRule(TheRule) = Return(TRUE)
      /\ TheRule.value = EmptySequence)
     => ReturnedFalse
  /\ (/\ EvaluatedOne(<<"n", "i", "n">>)
      /\ validateRule(TheRule) = Return(TRUE)
      /\ TheRule.value = EmptySequence)
     => ReturnedTrue

C29_Witness ==
  /\ Validated
  /\ ValidatedRule.attribute = Str(S_plan)
  /\ ValidatedRule.operator = Str(S_nin)
  /\ ValidatedRule.value = Arr(<<Num(5)>>)
  /\ validateRule(Rule(Str(S_plan), Str(S_in), EmptySequence)) = Return(TRUE)
  /\ Accepted

----------------------------------------------------------------------------
\* Relations between the two aggregation modes

EqualityNames == {<<"e", "q">>, <<"n", "e">>, <<"i", "n">>, <<"n", "i", "n">>}

\* The complement of an operator: eq <-> ne, in <-> nin
ComplementOf(op) ==
  CASE op = <<"e", "q">> -> <<"n", "e">>
    [] op = <<"n", "e">> -> <<"e", "q">>
    [] op = <<"i", "n">> -> <<"n", "i", "n">>
    [] OTHER -> <<"i", "n">>

\* The rule set with every operator replaced by its complement
Complemented(rs) ==
  [i \in 1..Len(rs) |-> [rs[i] EXCEPT !.operator = Str(ComplementOf(@.s))]]

OverEqualityRules ==
  \A i \in 1..Len(rules) :
    rules[i].operator.t = "string" /\ rules[i].operator.s \in EqualityNames

\* C27: the two modes are De Morgan duals: for every context and every rule
\* set over eq, ne, in and nin rules, the empty one included, the OR
\* evaluation equals the negation of the AND evaluation of the rule set in
\* which every operator is replaced by its complement.
C27_DeMorganDuality ==
  (EvaluatedOr /\ OverEqualityRules) =>
    LET dual == isContextValid(context, Complemented(rules), Options(FALSE), legacyDates)
    IN /\ dual.kind = ret.out.kind
       /\ ret.out.kind = "return" => ret.out.val = ~dual.val

C27_Witness ==
  /\ EvaluatedOr
  /\ OverEqualityRules
  /\ Len(rules) = 2
  /\ Fails(rules[1])
  /\ Matches(rules[2])
  /\ {rules[1].operator, rules[2].operator} = {Str(S_eq), Str(S_nin)}
  /\ ReturnedTrue

\* C28: for every context and every non-empty rule set, if isContextValid is
\* true in AND mode it is also true in OR mode, and for a rule set of exactly
\* one rule the two modes return the same result.
C28_AndImpliesOr ==
  (ret.op = "isContextValid" /\ Len(rules) >= 1) =>
    LET and == isContextValid(context, rules, Options(FALSE), legacyDates)
        or == isContextValid(context, rules, Options(TRUE), legacyDates)
    IN /\ ret.out = IF ret.options.someAreValid THEN or ELSE and
       /\ (and.kind = "return" /\ and.val) => (or.kind = "return" /\ or.val)
       /\ Len(rules) = 1 => and = or

C28_Witness ==
  /\ EvaluatedAnd
  /\ Len(rules) = 2
  /\ ReturnedTrue
  /\ isContextValid(context, rules, Options(TRUE), legacyDates).visited = 1

----------------------------------------------------------------------------
\* updateProductOptionsStep

\* What the step has responded with and what its compensation has done
StepContract ==
  /\ step.phase = "done" =>
       /\ step.response.output = <<>>
       /\ step.response.compensateInput.defined
       /\ step.response.compensateInput.items =
            listOptions(moduleOptions, step.data.selector,
                        [select |-> DOMAIN step.data.update, relations |-> {}])
       /\ step.resolved = {"invoke"}
  /\ step.phase = "compensated" =>
       ("compensate" \in step.resolved
          <=> /\ step.response.compensateInput.defined
              /\ step.response.compensateInput.items # <<>>)

\* C30: running updateProductOptionsStep and then its compensation leaves the
\* options of the product module unchanged for every selector and update: the
\* step function only lists, responds with an empty list of product options
\* and the listed options as compensation input, and the compensation writes
\* nothing and returns without resolving the service when its input is empty
\* or undefined.
C30_StepLeavesOptionsUnchanged ==
  [][moduleOptions' = moduleOptions /\ StepContract']_vars

C30_Witness ==
  /\ step.phase = "compensated"
  /\ step.response.compensateInput.defined
  /\ Len(step.response.compensateInput.items) = 2
  /\ step.resolved = {"invoke", "compensate"}
  /\ Cardinality(moduleOptions) = 3

----------------------------------------------------------------------------
\* Concurrent invocations

\* The outcome of the invocation when nothing else runs
Alone(v) ==
  CASE v.kind = "isContextValid" -> isContextValid(v.ctx, v.rs, v.options, legacyDates)
    [] v.kind = "validateRules" -> validateRules(v.rs)
    [] OTHER -> validateRule(v.rs[1])

\* C21: however concurrent isContextValid, validateRule and validateRules
\* invocations on different contexts and rule sets interleave, every one of
\* them ends with the outcome it has when it runs alone.
C21_InterleavingKeepsOutcomes ==
  \A p \in Invocations :
    (inflight[p].kind \in InvocationKinds /\ inflight[p].done) =>
      inflight[p].out = Alone(inflight[p])

C21_Witness ==
  /\ \A p \in Invocations :
       /\ inflight[p].kind = "isContextValid"
       /\ inflight[p].done
       /\ Len(inflight[p].rs) = 2
       /\ inflight[p].out.visited = 2
  /\ inflight["a"].ctx # inflight["b"].ctx
  /\ inflight["a"].rs # inflight["b"].rs
  /\ inflight["a"].out # inflight["b"].out

====
